---- MODULE Spec2Model ----
(***************************************************************************)
(* Model of src/parse_abo_metadata.py: one pass over the metadata          *)
(* directory that extracts four fields per JSON document, keeps the        *)
(* documents whose image file exists and writes them to a CSV table.       *)
(*                                                                         *)
(* JSON values are tagged records so that values of different JSON types   *)
(* can be told apart; a Python call is a record saying whether it raised   *)
(* and what it returned.                                                   *)
(***************************************************************************)
EXTENDS Naturals, Sequences, FiniteSets, TLC

\* Longest directory listing explored.
MaxFiles == 2

----------------------------------------------------------------------------
\* Program constants (lines 6-8).

METADATA_DIR == "../data/abo/abo-listings"
IMAGE_DIR == "../data/abo/abo-images-small"
OUTPUT_DIR == "../data/products.csv"

----------------------------------------------------------------------------
\* JSON values an input document is built from.

\* A list element that is a JSON object {"value": v, "language_tag": l}.
LocaleObject(v, l) ==
    [kind |-> "object", keys |-> {"value", "language_tag"}, value |-> v, language_tag |-> l]

\* A list element that is a JSON object without a "value" key.
ObjectNoValue(l) ==
    [kind |-> "object", keys |-> {"language_tag"}, value |-> "", language_tag |-> l]

\* A list element that is a JSON string, not an object.
StringElement ==
    [kind |-> "string", keys |-> {}, value |-> "", language_tag |-> ""]

\* The value stored under a key of the document: a list, a string, or no
\* such key at all.
JList(items) == [kind |-> "list", items |-> items, s |-> ""]
JString(s) == [kind |-> "string", items |-> <<>>, s |-> s]
JAbsent == [kind |-> "absent", items |-> <<>>, s |-> ""]

\* The shapes item_name and bullet_point take in the explored inputs.
TextFields ==
    { JAbsent,
      JString("plain"),
      JList(<<>>),
      JList(<<StringElement>>),
      JList(<<ObjectNoValue("en_US")>>),
      JList(<<LocaleObject("Vidget", "de_DE"), LocaleObject("Widget", "en_US")>>) }

ImageIds == { JAbsent, JString("img1") }
ItemIds == { JString("B001") }

\* What a directory entry holds.  kind says how far reading it gets:
\*   "unopenable"  open() raises OSError (a directory, no permission, ...)
\*   "undecodable" read() raises UnicodeDecodeError (bytes that are not UTF-8)
\*   "invalid"     the text is not JSON
\*   "array"       the text is JSON but the top-level value is a list
\*   "object"      the text is a JSON object with the four keys below
Blank(kind) ==
    [kind |-> kind, item_id |-> JAbsent, item_name |-> JAbsent,
     bullet_point |-> JAbsent, main_image_id |-> JAbsent]

Documents ==
    { [kind |-> "object", item_id |-> id, item_name |-> n,
       bullet_point |-> b, main_image_id |-> img] :
        id \in ItemIds, n \in TextFields, b \in TextFields, img \in ImageIds }

Contents ==
    { Blank("unopenable"), Blank("undecodable"), Blank("invalid"), Blank("array") }
        \cup Documents

\* Entry names of the metadata directory.
Names == { "a.json", "b.json", "a.json.bak" }

----------------------------------------------------------------------------
\* Python helpers.

\* str.endswith
EndsWith(s, suffix) ==
    /\ Len(s) >= Len(suffix)
    /\ SubSeq(s, Len(s) - Len(suffix) + 1, Len(s)) = suffix

\* str.startswith
StartsWith(s, prefix) ==
    /\ Len(s) >= Len(prefix)
    /\ SubSeq(s, 1, Len(prefix)) = prefix

\* os.path.join(a, b) on POSIX
PathJoin(a, b) ==
    IF StartsWith(b, "/") THEN b
    ELSE IF a = "" \/ EndsWith(a, "/") THEN a \o b
    ELSE a \o "/" \o b

\* The outcome of a call: a returned value or a raised exception.
Return(v) == [raised |-> FALSE, value |-> v, error |-> ""]
Raise(e) == [raised |-> TRUE, value |-> "", error |-> e]

\* field[0].get("value", "") for a list element
ElementGet(element) ==
    IF element.kind # "object" THEN Raise("AttributeError")
    ELSE IF "value" \in element.keys THEN Return(element.value)
    ELSE Return("")

\* Variant of extract_text_field that takes the last entry of the list.
extract_text_field_Last(field) ==
    IF field.kind = "list" /\ Len(field.items) > 0
    THEN ElementGet(field.items[Len(field.items)])
    ELSE Return("")

\* extract_text_field(field) (lines 12-16)
extract_text_field(field) ==
    IF field.kind = "list" /\ Len(field.items) > 0
    THEN ElementGet(field.items[1])
    ELSE Return("")

\* data.get(key, default): the stored value, or the default when the key is absent
DataGet(stored, default) ==
    IF stored.kind = "absent" THEN default ELSE stored

\* data.get(key, "") for a key that holds a string
GetString(stored) == DataGet(stored, JString("")).s

\* The four CSV columns (line 19).
Row(product_id, title, description, image_path) ==
    [product_id |-> product_id, title |-> title,
     description |-> description, image_path |-> image_path]

\* writer.writeheader(): the row that maps every column to its own name
HeaderRow == Row("product_id", "title", "description", "image_path")

\* Image files that may be present in IMAGE_DIR.
ImageFiles == { PathJoin(IMAGE_DIR, "img1.jpg"), PathJoin(IMAGE_DIR, ".jpg") }

----------------------------------------------------------------------------
VARIABLES
    fs,        \* the metadata directory: entry name -> content
    listing,   \* os.listdir(METADATA_DIR): the entry names in enumeration order
    images,    \* the paths under IMAGE_DIR that exist
    run,       \* "first" or "second" execution of the script
    pc,        \* "start", "loop", "done", or "aborted" (uncaught exception)
    idx,       \* position of the for loop in listing
    out,       \* lines of OUTPUT_DIR, a sequence of rows
    diag,      \* lines printed by the except branch during this run
    opened,    \* metadata paths opened for reading during this run
    firstOut   \* the table as the first run left it

vars == <<fs, listing, images, run, pc, idx, out, diag, opened, firstOut>>

\* Sequences of distinct entry names of at most MaxFiles entries.
Listings ==
    { l \in UNION { [1..n -> Names] : n \in 0..MaxFiles } :
        \A i, j \in DOMAIN l : i # j => l[i] # l[j] }

Range(f) == { f[x] : x \in DOMAIN f }

Init ==
    /\ listing \in Listings
    /\ fs \in [Range(listing) -> Contents]
    /\ \A n \in DOMAIN fs : ~EndsWith(n, ".json") => fs[n] = Blank("invalid")
    /\ images \in SUBSET ImageFiles
    /\ run = "first"
    /\ pc = "start"
    /\ idx = 1
    /\ out = <<>>
    /\ diag = <<>>
    /\ opened = <<>>
    /\ firstOut = <<>>

----------------------------------------------------------------------------
\* The loop body for one entry, as the code computes it.

\* Variant of the extension test that accepts ".json" anywhere in the name.
IsMetadataName_Contains(filename) ==
    \E i \in 1..Len(filename) :
        i + 4 <= Len(filename) /\ SubSeq(filename, i, i + 4) = ".json"

\* filename.endswith(".json") (line 23)
IsMetadataName(filename) == EndsWith(filename, ".json")

\* os.path.join(IMAGE_DIR, f"{image_id}.jpg") (lines 33-34)
ImagePath(doc) == PathJoin(IMAGE_DIR, GetString(doc.main_image_id) \o ".jpg")

\* os.path.exists(image_path) (line 36)
PathExists(path) == path \in images

\* json.load(f_in) followed by the four extractions (lines 29-34): the first
\* exception raised, or the record to write.
Extract(content) ==
    IF content.kind = "undecodable" THEN Raise("UnicodeDecodeError")
    ELSE IF content.kind = "invalid" THEN Raise("JSONDecodeError")
    ELSE IF content.kind # "object" THEN Raise("AttributeError")
    ELSE LET title == extract_text_field(DataGet(content.item_name, JList(<<>>)))
             description == extract_text_field(DataGet(content.bullet_point, JList(<<>>)))
         IN  IF title.raised THEN title
             ELSE IF description.raised THEN description
             ELSE Return(Row(GetString(content.item_id), title.value,
                             description.value, ImagePath(content)))

\* print(f"Failed to process {filename}: {e}") (line 47)
Diagnostic(filename, error) == [file |-> filename, error |-> error]

\* Variant of OpenOutput that leaves out writer.writeheader().
OpenOutput_NoHeader ==
    /\ pc = "start"
    /\ out' = <<>>
    /\ pc' = "loop"
    /\ idx' = 1
    /\ UNCHANGED <<fs, listing, images, run, diag, opened, firstOut>>

\* Variant of OpenOutput that opens the table in append mode.
OpenOutput_Append ==
    /\ pc = "start"
    /\ out' = Append(out, HeaderRow)
    /\ pc' = "loop"
    /\ idx' = 1
    /\ UNCHANGED <<fs, listing, images, run, diag, opened, firstOut>>

\* with open(OUTPUT_DIR, "w") ... writer.writeheader() (lines 18-20)
OpenOutput ==
    /\ pc = "start"
    /\ out' = <<HeaderRow>>
    /\ pc' = "loop"
    /\ idx' = 1
    /\ UNCHANGED <<fs, listing, images, run, diag, opened, firstOut>>

\* if not filename.endswith(".json"): continue (lines 23-24)
SkipFile ==
    /\ pc = "loop" /\ idx <= Len(listing)
    /\ ~IsMetadataName(listing[idx])
    /\ idx' = idx + 1
    /\ UNCHANGED <<fs, listing, images, run, pc, out, diag, opened, firstOut>>

\* open(filepath) raises outside the try block (line 27): the exception
\* leaves the loop and the script.
OpenFails ==
    /\ pc = "loop" /\ idx <= Len(listing)
    /\ IsMetadataName(listing[idx])
    /\ fs[listing[idx]].kind = "unopenable"
    /\ pc' = "aborted"
    /\ UNCHANGED <<fs, listing, images, run, idx, out, diag, opened, firstOut>>

\* Variant of ProcessFails without the except branch: the exception leaves
\* the script.
ProcessFails_Uncaught ==
    /\ pc = "loop" /\ idx <= Len(listing)
    /\ EndsWith(listing[idx], ".json")
    /\ fs[listing[idx]].kind # "unopenable"
    /\ Extract(fs[listing[idx]]).raised
    /\ opened' = Append(opened, PathJoin(METADATA_DIR, listing[idx]))
    /\ pc' = "aborted"
    /\ UNCHANGED <<fs, listing, images, run, idx, out, diag, firstOut>>

\* Variant of ProcessFails whose except branch also writes an empty row.
ProcessFails_WritesRow ==
    /\ pc = "loop" /\ idx <= Len(listing)
    /\ EndsWith(listing[idx], ".json")
    /\ fs[listing[idx]].kind # "unopenable"
    /\ Extract(fs[listing[idx]]).raised
    /\ opened' = Append(opened, PathJoin(METADATA_DIR, listing[idx]))
    /\ diag' = Append(diag, Diagnostic(listing[idx], Extract(fs[listing[idx]]).error))
    /\ out' = Append(out, Row("", "", "", ""))
    /\ idx' = idx + 1
    /\ UNCHANGED <<fs, listing, images, run, pc, firstOut>>

\* An exception inside the try block (lines 28-34, 46-47).
ProcessFails ==
    /\ pc = "loop" /\ idx <= Len(listing)
    /\ IsMetadataName(listing[idx])
    /\ fs[listing[idx]].kind # "unopenable"
    /\ Extract(fs[listing[idx]]).raised
    /\ opened' = Append(opened, PathJoin(METADATA_DIR, listing[idx]))
    /\ diag' = Append(diag, Diagnostic(listing[idx], Extract(fs[listing[idx]]).error))
    /\ idx' = idx + 1
    /\ UNCHANGED <<fs, listing, images, run, pc, out, firstOut>>

\* if not os.path.exists(image_path): continue (lines 36-37)
DiscardMissingImage ==
    /\ pc = "loop" /\ idx <= Len(listing)
    /\ IsMetadataName(listing[idx])
    /\ fs[listing[idx]].kind # "unopenable"
    /\ ~Extract(fs[listing[idx]]).raised
    /\ ~PathExists(Extract(fs[listing[idx]]).value.image_path)
    /\ opened' = Append(opened, PathJoin(METADATA_DIR, listing[idx]))
    /\ idx' = idx + 1
    /\ UNCHANGED <<fs, listing, images, run, pc, out, diag, firstOut>>

\* writer.writerow({...}) (lines 39-44)
WriteRow ==
    /\ pc = "loop" /\ idx <= Len(listing)
    /\ IsMetadataName(listing[idx])
    /\ fs[listing[idx]].kind # "unopenable"
    /\ ~Extract(fs[listing[idx]]).raised
    /\ PathExists(Extract(fs[listing[idx]]).value.image_path)
    /\ opened' = Append(opened, PathJoin(METADATA_DIR, listing[idx]))
    /\ out' = Append(out, Extract(fs[listing[idx]]).value)
    /\ idx' = idx + 1
    /\ UNCHANGED <<fs, listing, images, run, pc, diag, firstOut>>

\* The for loop is exhausted and the with block closes the table.
Finish ==
    /\ pc = "loop" /\ idx > Len(listing)
    /\ pc' = "done"
    /\ UNCHANGED <<fs, listing, images, run, idx, out, diag, opened, firstOut>>

\* The script is started again on the same directories.
Rerun ==
    /\ pc \in {"done", "aborted"}
    /\ run = "first"
    /\ run' = "second"
    /\ firstOut' = out
    /\ pc' = "start"
    /\ idx' = 1
    /\ diag' = <<>>
    /\ opened' = <<>>
    /\ UNCHANGED <<fs, listing, images, out>>

Next ==
    \/ OpenOutput
    \/ SkipFile
    \/ OpenFails
    \/ ProcessFails
    \/ DiscardMissingImage
    \/ WriteRow
    \/ Finish
    \/ Rerun

Spec == Init /\ [][Next]_vars

----------------------------------------------------------------------------
\* Vocabulary of the properties, stated on the inputs and the observable
\* effects (the table, the printed lines, the files opened).

\* The loop stands before the entry listing[idx].
AtFile == pc = "loop" /\ idx <= Len(listing)

\* The entry name carries the metadata extension.
HasJsonExtension(name) ==
    Len(name) >= 5 /\ SubSeq(name, Len(name) - 4, Len(name)) = ".json"

\* The image directory joined with {main_image_id}.jpg, the id defaulting
\* to the empty string.
DerivedImagePath(doc) ==
    IMAGE_DIR \o "/" \o (IF doc.main_image_id.kind = "string" THEN doc.main_image_id.s ELSE "")
        \o ".jpg"

\* s is t with exactly one line added at the end.
OneAppended(s, t) == Len(s) = Len(t) + 1 /\ SubSeq(s, 1, Len(t)) = t

\* t is an initial part of s.
IsPrefix(t, s) == Len(t) <= Len(s) /\ SubSeq(s, 1, Len(t)) = t

\* A text field in the shape of the data model: absent, or a list of objects
\* that each carry a value.
WellFormedText(field) ==
    \/ field.kind = "absent"
    \/ /\ field.kind = "list"
       /\ \A i \in 1..Len(field.items) :
            field.items[i].kind = "object" /\ "value" \in field.items[i].keys

\* A document in the shape of the data model.
ValidDocument(content) ==
    /\ content.kind = "object"
    /\ WellFormedText(content.item_name)
    /\ WellFormedText(content.bullet_point)

\* A document that cannot be processed: it cannot be opened, read or parsed,
\* or it does not have the expected shape.
BadDocument(content) ==
    \/ content.kind # "object"
    \/ \E field \in {content.item_name, content.bullet_point} :
         field.kind = "list" /\ Len(field.items) > 0 /\ field.items[1].kind # "object"

\* This step reported one diagnostic naming the file and wrote no row.
ReportedOnly(name) ==
    /\ OneAppended(diag', diag)
    /\ diag'[Len(diag')].file = name
    /\ out' = out

\* This step wrote one row and reported nothing.
WroteRowOnly == OneAppended(out', out) /\ diag' = diag

\* This step wrote nothing and reported nothing.
Silent == out' = out /\ diag' = diag

\* The loop moved on to the next entry.
Continued == pc' = "loop" /\ idx' = idx + 1

----------------------------------------------------------------------------
\* C1: every failure while processing one metadata file (it cannot be
\* opened or read, it is not JSON, it has an unexpected shape) is recovered
\* locally: one diagnostic naming the file, no row, and the loop continues.
C1_FailureRecoveredLocally ==
    [][ (AtFile /\ HasJsonExtension(listing[idx]) /\ BadDocument(fs[listing[idx]]))
          => (ReportedOnly(listing[idx]) /\ Continued) ]_vars

\* C2: when a .json file of the listing holds invalid JSON, that file gets
\* one diagnostic naming it and no row, the loop goes on, and every valid
\* file whose derived image path exists gets its row.
C2_InvalidJsonDoesNotBlockOthers ==
    [][ (AtFile /\ \E n \in DOMAIN fs : HasJsonExtension(n) /\ fs[n].kind = "invalid")
          => LET name == listing[idx]
                 doc == fs[name]
             IN  /\ (HasJsonExtension(name) /\ doc.kind = "invalid")
                      => (ReportedOnly(name) /\ Continued)
                 /\ (HasJsonExtension(name) /\ ValidDocument(doc)
                        /\ DerivedImagePath(doc) \in images)
                      => /\ WroteRowOnly /\ Continued
                         /\ out'[Len(out')].image_path = DerivedImagePath(doc) ]_vars

\* C2 witness: the first entry held invalid JSON and was reported, and the
\* valid entry after it has its row.
C2_Witness ==
    /\ pc = "loop" /\ idx = 3
    /\ fs[listing[1]].kind = "invalid" /\ HasJsonExtension(listing[1])
    /\ ValidDocument(fs[listing[2]]) /\ HasJsonExtension(listing[2])
    /\ Len(diag) = 1 /\ diag[1].file = listing[1]
    /\ Len(out) = 2 /\ out[2].image_path = DerivedImagePath(fs[listing[2]])

\* C3: extract_text_field never raises on the values the loop passes to it,
\* and returns the first element's value for a non-empty list of
\* locale-tagged objects and the empty string for every other shape.
C3_ExtractNeverFails ==
    (AtFile /\ fs[listing[idx]].kind = "object")
      => \A stored \in {fs[listing[idx]].item_name, fs[listing[idx]].bullet_point} :
           LET field == IF stored.kind = "absent" THEN JList(<<>>) ELSE stored
               result == extract_text_field(field)
           IN  /\ ~result.raised
               /\ result.value =
                    IF /\ field.kind = "list" /\ Len(field.items) > 0
                       /\ field.items[1].kind = "object"
                       /\ "value" \in field.items[1].keys
                    THEN field.items[1].value
                    ELSE ""

\* C4: a document that parses as a JSON object and whose derived image path
\* exists gets exactly one row, with image_path equal to the derived path,
\* whatever the shape of item_name and bullet_point.
C4_ExistingImageGetsOneRow ==
    [][ (AtFile /\ HasJsonExtension(listing[idx]) /\ fs[listing[idx]].kind = "object"
            /\ DerivedImagePath(fs[listing[idx]]) \in images)
          => /\ OneAppended(out', out)
             /\ out'[Len(out')].image_path = DerivedImagePath(fs[listing[idx]]) ]_vars

\* C5: a row is only ever written for the document being processed and only
\* when its derived image path exists; a document whose derived image path
\* does not exist produces no row and no diagnostic.
C5_RowsOnlyForExistingImages ==
    [][ AtFile
          => /\ out' # out
                  => /\ OneAppended(out', out)
                     /\ fs[listing[idx]].kind = "object"
                     /\ DerivedImagePath(fs[listing[idx]]) \in images
             /\ (HasJsonExtension(listing[idx]) /\ fs[listing[idx]].kind = "object"
                    /\ DerivedImagePath(fs[listing[idx]]) \notin images)
                  => Silent ]_vars

\* The text the claim expects in a column for a stored field.
FirstValueOrEmpty(stored, text) ==
    /\ (stored.kind = "list" /\ Len(stored.items) > 0 /\ "value" \in stored.items[1].keys)
          => text = stored.items[1].value
    /\ (stored.kind = "absent" \/ (stored.kind = "list" /\ Len(stored.items) = 0))
          => text = ""

\* C6: in every row written, title and description are the value of the
\* first element of item_name and bullet_point when that list is non-empty,
\* and the empty string when it is empty or absent; the first entry is used
\* whatever its language.
C6_FirstEntryOrEmpty ==
    [][ (AtFile /\ out' # out)
          => /\ OneAppended(out', out)
             /\ FirstValueOrEmpty(fs[listing[idx]].item_name, out'[Len(out')].title)
             /\ FirstValueOrEmpty(fs[listing[idx]].bullet_point, out'[Len(out')].description) ]_vars

\* C6 witness: a row whose title is the first (German) entry of a list that
\* also has an English entry, and whose description comes from an absent or
\* empty list.
C6_Witness ==
    /\ pc = "loop" /\ idx = 2 /\ Len(out) = 2
    /\ Len(fs[listing[1]].item_name.items) = 2
    /\ fs[listing[1]].item_name.items[1].language_tag = "de_DE"
    /\ Len(fs[listing[1]].bullet_point.items) = 0
    /\ fs[listing[1]].bullet_point.kind = "list"
    /\ out[2].title = "Vidget" /\ out[2].description = ""

\* C7: the table is truncated when a run starts, the header row is its
\* first line and occurs nowhere else, lines are only added at the end, and
\* a row is added while its document is the one being processed, so rows
\* follow the order of the listing.
C7_HeaderOnceRowsInOrder ==
    [][ /\ pc = "start" => out' \in {out, <<HeaderRow>>}
        /\ pc # "start" => IsPrefix(out, out')
        /\ pc' \in {"loop", "done", "aborted"}
             => /\ Len(out') >= 1 /\ out'[1] = HeaderRow
                /\ \A i \in 2..Len(out') : out'[i] # HeaderRow
        /\ (AtFile /\ out' # out)
             => /\ OneAppended(out', out)
                /\ out'[Len(out')].image_path = DerivedImagePath(fs[listing[idx]])
                /\ idx' = idx + 1 ]_vars

\* C7 witness: a second run over two accepted documents has finished and the
\* table holds the header and the two rows.
C7_Witness ==
    /\ run = "second" /\ pc = "done" /\ Len(listing) = 2
    /\ Len(firstOut) = 3
    /\ Len(out) = 3 /\ out[1] = HeaderRow
    /\ out[2].image_path = DerivedImagePath(fs[listing[1]])
    /\ out[3].image_path = DerivedImagePath(fs[listing[2]])

\* C8: a second run on unchanged directories, enumerated in the same order,
\* ends with the same table as the first run left.
C8_SecondRunSameTable ==
    (run = "second" /\ pc \in {"done", "aborted"}) => out = firstOut

\* C8 witness: the second run has finished with a row and a diagnostic.
C8_Witness ==
    /\ run = "second" /\ pc = "done"
    /\ Len(out) = 2 /\ Len(diag) = 1 /\ out = firstOut

\* C9: an entry whose name does not end in .json is not opened, produces no
\* row and no diagnostic, and leaves the table unchanged.
C9_OtherNamesSkipped ==
    [][ (AtFile /\ ~HasJsonExtension(listing[idx]))
          => (Silent /\ opened' = opened /\ Continued) ]_vars

\* C9 witness: the loop has passed an entry without the extension and the
\* table still holds only the header.
C9_Witness ==
    /\ pc = "loop" /\ idx = 2
    /\ ~HasJsonExtension(listing[1])
    /\ out = <<HeaderRow>> /\ diag = <<>> /\ opened = <<>>

\* Entries with the metadata extension among the first n of the listing.
JsonEntries(n) == { i \in 1..n : HasJsonExtension(listing[i]) }

\* C10: while a run is not aborted, every step of the loop handles the next
\* entry of the listing and ends in exactly one of: one row written, one
\* diagnostic reported, nothing; rows and diagnostics together never exceed
\* the .json names handled, and a completed run has handled the whole listing.
C10_OneOutcomePerFile ==
    [][ /\ (AtFile /\ pc' # "aborted")
             => /\ Continued
                /\ \/ WroteRowOnly
                   \/ ReportedOnly(listing[idx])
                   \/ Silent
        /\ pc' \in {"loop", "done"}
             => (Len(out') - 1) + Len(diag') <= Cardinality(JsonEntries(idx' - 1))
        /\ pc' = "done" => idx' = Len(listing) + 1 ]_vars

\* C10 witness: a completed run over two .json entries, one written and one
\* reported.
C10_Witness ==
    /\ pc = "done" /\ Len(listing) = 2
    /\ Cardinality(JsonEntries(2)) = 2
    /\ Len(out) = 2 /\ Len(diag) = 1

====
